---- MODULE Spec2Model ----
(***************************************************************************)
(* The job-lifecycle managers of the repository: one status field that a   *)
(* process / processAsync / reset call moves through pending, processing,  *)
(* completed and failed.  The same manager is written three ways:          *)
(*   go   - Manager (configuration_manager_54.go): every call holds mu     *)
(*   java - ProcessingManager (ProcessingManager_388.java): a volatile     *)
(*          status and no lock, calls run on threads                       *)
(*   js   - ApiManager (api_manager_188.js): one event loop, process       *)
(*          suspends at its await                                          *)
(* The C++ managers (monitoring_manager_140.hpp) have the shape of the     *)
(* Java one with a plain status field; they are not modelled separately.   *)
(* lang is fixed at construction; each behaviour is one manager instance.  *)
(* SpecLifecycle adds the callers of GetStatus and Close.  PollSpec is the *)
(* web client's ApiService.pollReview (lang "ts"), with no manager.        *)
(***************************************************************************)
EXTENDS Integers, Sequences, FiniteSets, TLC

\* ---------------------------------------------------------------- bounds
NumProcs == 2

Procs == 1..NumProcs

Langs == {"go", "java", "js"}

\* ------------------------------------------------------ program constants
\* setTimeout(..., 100) / time.After(100 * time.Millisecond)
WorkDelayMs == 100

\* timeout: 30000 of the default configuration
DefaultTimeoutMs == 30000

\* the clock of the model advances in steps of half the worker's delay
TimeStep == WorkDelayMs \div 2

\* a timeout a caller may configure: shorter than the worker's delay
ShortTimeoutMs == WorkDelayMs \div 2

\* the timeouts a manager is constructed with; only the JavaScript configuration
\* is in milliseconds, and no manager reads the field after construction
Timeouts(l) == IF l = "js" THEN {ShortTimeoutMs, DefaultTimeoutMs} ELSE {DefaultTimeoutMs}

\* ---------------------------------------------------------------- status
StatusPending == "pending"

StatusProcessing == "processing"

StatusCompleted == "completed"

StatusFailed == "failed"

Terminal == {StatusCompleted, StatusFailed}

\* --------------------------------------------------------------- payloads
\* null / nil, undefined, and a function value (JavaScript) are tokens;
\* every other payload is the text itself.
NullData == "<null>"

UndefinedData == "<undefined>"

FunctionData == "<function>"

Payloads(l) ==
    CASE l = "go"   -> {NullData, "resume.pdf"}
      [] l = "java" -> {NullData, "resume.pdf"}
      [] l = "js"   -> {NullData, UndefinedData, "resume.pdf", FunctionData}

VARIABLES
    lang,          \* which manager this instance is
    cfgTimeout,    \* config.timeout, fixed at construction
    status,        \* the manager's status field
    mu,            \* go: the holder of m.mu (0: free)
    running,       \* js: the call whose synchronous turn is on the stack (0: none)
    op,            \* per execution unit: the operation it runs
    pc,            \* per execution unit: its position in that operation
    data,          \* per execution unit: the payload it was given
    ctxDone,       \* go: whether the call's context is cancelled
    waited,        \* time the unit has spent waiting for the worker's timer
    ret,           \* what process returned (or threw) to its caller
    retStatus,     \* the status field at the moment process returned
    handle,        \* what the asynchronous handle (channel, future) holds
    contended,     \* history: another execution was in the pipeline when this one claimed
    workerInvoked, \* history: this run entered executeProcessing
    epochOpen,     \* history: the job entered pending and reached no terminal status since
    epochRuns,     \* history: worker invocations in the open epoch
    resetStreak,   \* history: resets in a row since the last other write of status, up to 2
    callerHasHandle, \* per unit: processAsync has handed its channel / future to the caller
    query,         \* go: a GetStatus call, "idle" or "waiting" for m.mu
    seen,          \* go: the status the last GetStatus returned ("" before the first)
    closed,        \* history: Close has returned
    afterClose,    \* history, per unit: its call was made after Close had returned
    pollPc,        \* pollReview: its position
    attempts,      \* pollReview: the local attempts
    lastGet,       \* pollReview: what the getReview of this iteration came back with
    gets,          \* history: getReview calls of this pollReview call
    sleeps,        \* history: sleeps of this pollReview call
    sleptSinceGet, \* history: sleeps since the last getReview
    pollOut,       \* what pollReview returned or threw
    made,          \* construction: "no", "ok", or "threw"
    callerCfg,     \* the configuration object the caller passed and still holds
    heldCfg,       \* the configuration the manager holds
    createdWith,   \* history: the configuration the manager held when it was made
    stale,         \* C++: overwritten statuses a racing read may still return
    unjoined,      \* C++: the units that wrote status_ and were not joined since
    appState,      \* App: the AppState of the component
    appPc,         \* App: the handler in flight: "idle", "uploading", "polling", "retrying"
    file,          \* App: the file last given to handleFileUpload
    uploads,       \* App: the upload requests issued
    polledId,      \* App: the reviewId last given to pollReview
    response,      \* App: the review the last getReview came back with
    lastHandler    \* App: history, the handler that ran last

\* the manager's own state and the history kept about it
managerVars == <<lang, cfgTimeout, status, mu, running, op, pc, data, ctxDone, waited,
                 ret, retStatus, handle, contended, workerInvoked, epochOpen, epochRuns,
                 resetStreak, callerHasHandle>>

\* the callers of GetStatus and Close
lifecycleVars == <<query, seen, closed, afterClose>>

\* one pollReview call of the API client
pollVars == <<pollPc, attempts, lastGet, gets, sleeps, sleptSinceGet, pollOut>>

\* the construction of a manager and its configuration
createVars == <<made, callerCfg, heldCfg, createdWith>>

\* what the managers' calls never touch
\* the visibility of the plain C++ field status_ to a reading thread
cppVars == <<stale, unjoined>>

\* the web application around pollReview
appVars == <<appState, appPc, file, uploads, polledId, response, lastHandler>>

sideVars == <<createVars, cppVars, appVars>>

vars == <<managerVars, lifecycleVars, pollVars, sideVars>>

\* ------------------------------------------------------- values returned
NoRet == [kind |-> "none", status |-> "", dataSize |-> 0, message |-> <<>>]

ErrorRet(msg) == [kind |-> "error", status |-> "", dataSize |-> 0, message |-> msg]

ResultRet(st, size, msg) ==
    [kind |-> "result", status |-> st, dataSize |-> size, message |-> msg]

\* A message is the sequence of its pieces; + and %w concatenate.
Contains(msg, piece) == \E i \in 1..Len(msg) : msg[i] = piece

\* a handle nothing was delivered to yet
EmptyHandle == [buf |-> <<>>, closed |-> FALSE]

\* a handle that is finished, holding the values delivered to it
ClosedHandle(values) == [buf |-> values, closed |-> TRUE]

\* the units inside process between its first and its last write of status
Pipeline == {"validate", "execute", "await", "complete"}

Active == {q \in Procs : pc[q] \in Pipeline}

Idle(p) == pc[p] \in {"idle", "done", "crashed"}

\* ---------------------------------------------------------- configuration
\* retries: 3 of the default configuration
DefaultRetries == 3

\* no configuration object is passed: nil, null, undefined
MissingConfig == [missing |-> TRUE]

\* the level names a caller may write: the manager's own in its language's
\* spelling, and DEBUG, which the JavaScript logger tests for
LogLevels(l) == IF l = "js" THEN {"info", "debug"} ELSE {"INFO", "DEBUG"}

RetriesValues == {0, DefaultRetries}

\* DefaultConfig() / new Config() / the defaults of the ApiManager constructor
DefaultConfig(l) ==
    [enabled |-> TRUE, timeout |-> DefaultTimeoutMs, retries |-> DefaultRetries,
     logLevel |-> IF l = "js" THEN "info" ELSE "INFO"]

\* the configuration objects a caller may pass
Configs(l) ==
    [enabled : BOOLEAN, timeout : {DefaultTimeoutMs}, retries : RetriesValues,
     logLevel : LogLevels(l)]

\* the names java.util.logging.Level.parse knows; any other name makes it
\* throw IllegalArgumentException
JavaLevelNames ==
    {"OFF", "SEVERE", "WARNING", "INFO", "CONFIG", "FINE", "FINER", "FINEST", "ALL"}

\* one field of a configuration object written through a setter or a field
\* assignment
FieldWrites(l, c) ==
    ({[c EXCEPT !.retries = r] : r \in RetriesValues}
        \cup {[c EXCEPT !.logLevel = v] : v \in LogLevels(l)}
        \cup {[c EXCEPT !.enabled = ~c.enabled]}) \ {c}

\* a manager as its constructor leaves it, with no call made yet
ManagerFresh ==
    /\ status = StatusPending
    /\ mu = 0
    /\ running = 0
    /\ op = [p \in Procs |-> "none"]
    /\ pc = [p \in Procs |-> "idle"]
    /\ data = [p \in Procs |-> NullData]
    /\ ctxDone = [p \in Procs |-> FALSE]
    /\ waited = [p \in Procs |-> 0]
    /\ ret = [p \in Procs |-> NoRet]
    /\ retStatus = [p \in Procs |-> ""]
    /\ handle = [p \in Procs |-> EmptyHandle]
    /\ contended = [p \in Procs |-> FALSE]
    /\ workerInvoked = [p \in Procs |-> FALSE]
    /\ epochOpen = TRUE
    /\ epochRuns = 0
    /\ resetStreak = 0
    /\ callerHasHandle = [p \in Procs |-> FALSE]

\* no GetStatus and no Close was called yet
LifecycleFresh ==
    /\ query = "idle"
    /\ seen = ""
    /\ closed = FALSE
    /\ afterClose = [p \in Procs |-> FALSE]

\* the manager of the behaviour exists, made with a configuration nobody else
\* holds
CreateFresh ==
    /\ made = "ok"
    /\ callerCfg = MissingConfig
    /\ heldCfg = DefaultConfig(lang)
    /\ createdWith = DefaultConfig(lang)

\* no write of status_ is pending for a reader
CppFresh ==
    /\ stale = {}
    /\ unjoined = {}

\* reviewId: null
NoReviewId == <<>>

\* review: null
NoReview == [status |-> "none", body |-> FALSE, error_message |-> NullData]

\* no file was chosen yet
NoFile == [type |-> "", size |-> 0]

\* useState<AppState>({...}), and what resetApp sets
InitialAppState ==
    [currentStep |-> "UPLOAD", reviewId |-> NoReviewId, review |-> NoReview,
     isLoading |-> FALSE, error |-> NullData, uploadProgress |-> 0]

\* the application as it is first rendered
AppFresh ==
    /\ appState = InitialAppState
    /\ appPc = "idle"
    /\ file = NoFile
    /\ uploads = 0
    /\ polledId = NoReviewId
    /\ response = NoReview
    /\ lastHandler = "none"

\* no pollReview call was made yet
PollFresh ==
    /\ pollPc = "idle"
    /\ attempts = 0
    /\ lastGet = "none"
    /\ gets = 0
    /\ sleeps = 0
    /\ sleptSinceGet = 0
    /\ pollOut = "none"

Init ==
    /\ lang \in Langs
    /\ cfgTimeout \in Timeouts(lang)
    /\ ManagerFresh
    /\ LifecycleFresh
    /\ PollFresh
    /\ CreateFresh
    /\ CppFresh
    /\ AppFresh

\* processAsync that runs process before it hands out the handle
HandleReturnedAfterRun(kind) == FALSE

\* whether the call has handed its handle to the caller once the unit of
\* concurrency is started: go func() {...}() then return resultChan;
\* CompletableFuture.supplyAsync; std::async(std::launch::async, ...)
HandleReturnedAtCall(kind) == kind = "processAsync"

\* A call starts: the unit's record of its previous call is dropped.
StartCall(p, kind, d, first) ==
    /\ op' = [op EXCEPT ![p] = kind]
    /\ pc' = [pc EXCEPT ![p] = first]
    /\ data' = [data EXCEPT ![p] = d]
    /\ waited' = [waited EXCEPT ![p] = 0]
    /\ ret' = [ret EXCEPT ![p] = NoRet]
    /\ retStatus' = [retStatus EXCEPT ![p] = ""]
    /\ handle' = [handle EXCEPT ![p] = EmptyHandle]
    /\ workerInvoked' = [workerInvoked EXCEPT ![p] = FALSE]
    /\ callerHasHandle' = [callerHasHandle EXCEPT ![p] = HandleReturnedAtCall(kind)]

\* The status field is written.  An epoch opens when the job enters pending and
\* closes at the next terminal status.
SetStatus(s) ==
    /\ status' = s
    /\ epochOpen' = IF s \in Terminal THEN FALSE
                    ELSE IF s = StatusPending THEN TRUE
                    ELSE epochOpen
    /\ epochRuns' = IF s = StatusPending THEN 0 ELSE epochRuns
    /\ resetStreak' = IF s # StatusPending THEN 0
                      ELSE IF resetStreak < 2 THEN resetStreak + 1
                      ELSE resetStreak

\* executeProcessing is entered; the status field is not written.
CountWorker(p) ==
    /\ workerInvoked' = [workerInvoked EXCEPT ![p] = TRUE]
    /\ epochRuns' = IF epochOpen /\ epochRuns < NumProcs THEN epochRuns + 1
                    ELSE epochRuns
    /\ UNCHANGED <<status, epochOpen, resetStreak>>

\* process returns r with the status field as it was before its last write
ReturnStale(p, r) ==
    /\ ret' = [ret EXCEPT ![p] = r]
    /\ retStatus' = [retStatus EXCEPT ![p] = status]

\* process returns r; retStatus keeps the status field as process leaves it.
Return(p, r) ==
    /\ ret' = [ret EXCEPT ![p] = r]
    /\ retStatus' = [retStatus EXCEPT ![p] = status']

\* ===================================================================== java
\* ProcessingManager.validate
JavaValidate(d) == d # NullData

\* ProcessingManager.executeProcessing: dataSize is data.toString().length()
JavaExecuteProcessing(d) == ResultRet("success", Len(d), <<>>)

\* new IllegalArgumentException("Data validation failed")
JavaValidationMessage == <<"Data ", "validation failed">>

\* new RuntimeException("Processing failed: " + e.getMessage(), e)
JavaWrap(msg) == <<"Processing failed: ">> \o msg

\* what the CompletableFuture of processAsync completes with
JavaFuture(p, r) ==
    IF op[p] = "processAsync" THEN ClosedHandle(<<r>>) ELSE handle[p]

\* process(data) is called on a thread, or processAsync(data) hands it to the pool
JavaCall(p, kind, d) ==
    /\ lang = "java"
    /\ Idle(p)
    /\ StartCall(p, kind, d, "start")
    /\ contended' = [contended EXCEPT ![p] = FALSE]
    /\ UNCHANGED <<lang, cfgTimeout, status, mu, running, ctxDone, epochOpen,
                   epochRuns>>
    /\ UNCHANGED <<resetStreak, lifecycleVars, pollVars, sideVars>>

\* status = Status.PROCESSING
JavaBegin(p) ==
    /\ lang = "java"
    /\ pc[p] = "start"
    /\ SetStatus(StatusProcessing)
    /\ contended' = [contended EXCEPT ![p] = (Active \ {p}) # {}]
    /\ pc' = [pc EXCEPT ![p] = "validate"]
    /\ UNCHANGED <<lang, cfgTimeout, mu, running, op, data, ctxDone, waited, ret,
                   retStatus, handle, workerInvoked>>
    /\ UNCHANGED <<callerHasHandle, lifecycleVars, pollVars, sideVars>>

\* validate fails: the exception is caught, status = Status.FAILED, and rethrown
JavaValidateFail(p) ==
    /\ lang = "java"
    /\ pc[p] = "validate"
    /\ ~JavaValidate(data[p])
    /\ SetStatus(StatusFailed)
    /\ Return(p, ErrorRet(JavaWrap(JavaValidationMessage)))
    /\ handle' = [handle EXCEPT
                    ![p] = JavaFuture(p, ErrorRet(JavaWrap(JavaValidationMessage)))]
    /\ pc' = [pc EXCEPT ![p] = "done"]
    /\ UNCHANGED <<lang, cfgTimeout, mu, running, op, data, ctxDone, waited, contended,
                   workerInvoked>>
    /\ UNCHANGED <<callerHasHandle, lifecycleVars, pollVars, sideVars>>

\* validate passes and executeProcessing builds the result
JavaExecute(p) ==
    /\ lang = "java"
    /\ pc[p] = "validate"
    /\ JavaValidate(data[p])
    /\ CountWorker(p)
    /\ pc' = [pc EXCEPT ![p] = "complete"]
    /\ UNCHANGED <<lang, cfgTimeout, mu, running, op, data, ctxDone, waited, ret,
                   retStatus, handle, contended>>
    /\ UNCHANGED <<callerHasHandle, lifecycleVars, pollVars, sideVars>>

\* status = Status.COMPLETED; return result
JavaComplete(p) ==
    /\ lang = "java"
    /\ pc[p] = "complete"
    /\ SetStatus(StatusCompleted)
    /\ Return(p, JavaExecuteProcessing(data[p]))
    /\ handle' = [handle EXCEPT ![p] = JavaFuture(p, JavaExecuteProcessing(data[p]))]
    /\ pc' = [pc EXCEPT ![p] = "done"]
    /\ UNCHANGED <<lang, cfgTimeout, mu, running, op, data, ctxDone, waited, contended,
                   workerInvoked>>
    /\ UNCHANGED <<callerHasHandle, lifecycleVars, pollVars, sideVars>>

\* reset(): status = Status.PENDING
JavaReset ==
    /\ lang = "java"
    /\ SetStatus(StatusPending)
    /\ UNCHANGED <<lang, cfgTimeout, mu, running, op, pc, data, ctxDone, waited, ret,
                   retStatus, handle, contended, workerInvoked>>
    /\ UNCHANGED <<callerHasHandle, lifecycleVars, pollVars, sideVars>>

JavaNext ==
    \/ \E p \in Procs, kind \in {"process", "processAsync"}, d \in Payloads("java") :
           JavaCall(p, kind, d)
    \/ \E p \in Procs : JavaBegin(p)
    \/ \E p \in Procs : JavaValidateFail(p)
    \/ \E p \in Procs : JavaExecute(p)
    \/ \E p \in Procs : JavaComplete(p)
    \/ JavaReset

\* ======================================================================= go
\* Validate without its nil check
GoValidateAcceptsNil(d) == TRUE

\* Manager.Validate
GoValidate(d) == d # NullData

\* fmt.Errorf("data cannot be nil")
GoNilMessage == <<"data cannot be nil">>

\* fmt.Errorf("validation failed: %w", err)
GoValidationError(msg) == <<"validation failed", ": ">> \o msg

\* fmt.Errorf("processing failed: %w", err)
GoProcessingError(msg) == <<"processing failed", ": ">> \o msg

\* ctx.Err() of a cancelled context
GoContextCanceled == <<"context canceled">>

\* the Result of executeProcessing: DataSize is len(fmt.Sprintf("%v", data))
GoExecuteProcessing(d) ==
    ResultRet("success", Len(d), <<"Configuration processing completed successfully">>)

\* ProcessAsync: what goes to the channel for Process's (result, err)
GoAsyncResult(r) ==
    IF r.kind = "error" THEN ResultRet("error", 0, r.message) ELSE r

\* where a call goes once Process has returned
GoAfterProcess(p) == IF op[p] = "processAsync" THEN "send" ELSE "done"

\* Process(ctx, data) is called, or ProcessAsync(ctx, data) starts its goroutine
GoCall(p, kind, d) ==
    /\ lang = "go"
    /\ Idle(p)
    /\ StartCall(p, kind, d, "lock")
    /\ contended' = [contended EXCEPT ![p] = FALSE]
    /\ ctxDone' = [ctxDone EXCEPT ![p] = FALSE]
    /\ afterClose' = [afterClose EXCEPT ![p] = closed]
    /\ UNCHANGED <<lang, cfgTimeout, status, mu, running, epochOpen, epochRuns>>
    /\ UNCHANGED <<resetStreak, query, seen, closed, pollVars, sideVars>>

\* the caller cancels the context: before Process takes the lock (the call was
\* made with a cancelled context) or while the call is in flight
GoCancel(p) ==
    /\ lang = "go"
    /\ pc[p] \in {"lock", "validate", "execute", "send"}
    /\ ~ctxDone[p]
    /\ ctxDone' = [ctxDone EXCEPT ![p] = TRUE]
    /\ UNCHANGED <<lang, cfgTimeout, status, mu, running, op, pc, data, waited, ret,
                   retStatus, handle, contended, workerInvoked, epochOpen, epochRuns>>
    /\ UNCHANGED <<resetStreak, callerHasHandle, lifecycleVars, pollVars, sideVars>>

\* m.mu.Lock(); m.status = StatusProcessing
GoLock(p) ==
    /\ lang = "go"
    /\ pc[p] = "lock"
    /\ mu = 0
    /\ mu' = p
    /\ SetStatus(StatusProcessing)
    /\ contended' = [contended EXCEPT ![p] = (Active \ {p}) # {}]
    /\ pc' = [pc EXCEPT ![p] = "validate"]
    /\ UNCHANGED <<lang, cfgTimeout, running, op, data, ctxDone, waited, ret, retStatus,
                   handle, workerInvoked>>
    /\ UNCHANGED <<callerHasHandle, lifecycleVars, pollVars, sideVars>>

\* Validate fails and the error is returned with the status left as it is
GoValidateFailKeepsStatus(p) ==
    /\ lang = "go"
    /\ pc[p] = "validate"
    /\ ~GoValidate(data[p])
    /\ UNCHANGED <<status, epochOpen, epochRuns, resetStreak>>
    /\ Return(p, ErrorRet(GoValidationError(GoNilMessage)))
    /\ mu' = 0
    /\ pc' = [pc EXCEPT ![p] = GoAfterProcess(p)]
    /\ UNCHANGED <<lang, cfgTimeout, running, op, data, ctxDone, waited, handle,
                   contended, workerInvoked>>
    /\ UNCHANGED <<callerHasHandle, lifecycleVars, pollVars, sideVars>>

\* Validate fails: m.status = StatusFailed, the error is returned, mu is released
GoValidateFail(p) ==
    /\ lang = "go"
    /\ pc[p] = "validate"
    /\ ~GoValidate(data[p])
    /\ SetStatus(StatusFailed)
    /\ Return(p, ErrorRet(GoValidationError(GoNilMessage)))
    /\ mu' = 0
    /\ pc' = [pc EXCEPT ![p] = GoAfterProcess(p)]
    /\ UNCHANGED <<lang, cfgTimeout, running, op, data, ctxDone, waited, handle,
                   contended, workerInvoked>>
    /\ UNCHANGED <<callerHasHandle, lifecycleVars, pollVars, sideVars>>

\* Validate passes and executeProcessing starts its select
GoValidateOk(p) ==
    /\ lang = "go"
    /\ pc[p] = "validate"
    /\ GoValidate(data[p])
    /\ CountWorker(p)
    /\ pc' = [pc EXCEPT ![p] = "execute"]
    /\ UNCHANGED <<lang, cfgTimeout, mu, running, op, data, ctxDone, waited, ret,
                   retStatus, handle, contended>>
    /\ UNCHANGED <<callerHasHandle, lifecycleVars, pollVars, sideVars>>

\* case <-time.After(100ms): the result, m.status = StatusCompleted, mu released
GoWorkerDone(p) ==
    /\ lang = "go"
    /\ pc[p] = "execute"
    /\ waited[p] >= WorkDelayMs
    /\ SetStatus(StatusCompleted)
    /\ Return(p, GoExecuteProcessing(data[p]))
    /\ mu' = 0
    /\ pc' = [pc EXCEPT ![p] = GoAfterProcess(p)]
    /\ waited' = [waited EXCEPT ![p] = 0]
    /\ UNCHANGED <<lang, cfgTimeout, running, op, data, ctxDone, handle, contended,
                   workerInvoked>>
    /\ UNCHANGED <<callerHasHandle, lifecycleVars, pollVars, sideVars>>

\* the cancelled worker's exit path that returns with mu still held
GoWorkerCancelledKeepsLock(p) ==
    /\ lang = "go"
    /\ pc[p] = "execute"
    /\ ctxDone[p]
    /\ SetStatus(StatusFailed)
    /\ Return(p, ErrorRet(GoProcessingError(GoContextCanceled)))
    /\ pc' = [pc EXCEPT ![p] = GoAfterProcess(p)]
    /\ waited' = [waited EXCEPT ![p] = 0]
    /\ UNCHANGED <<lang, cfgTimeout, mu, running, op, data, ctxDone, handle, contended,
                   workerInvoked>>
    /\ UNCHANGED <<callerHasHandle, lifecycleVars, pollVars, sideVars>>

\* case <-ctx.Done(): ctx.Err(), m.status = StatusFailed, mu released
GoWorkerCancelled(p) ==
    /\ lang = "go"
    /\ pc[p] = "execute"
    /\ ctxDone[p]
    /\ SetStatus(StatusFailed)
    /\ Return(p, ErrorRet(GoProcessingError(GoContextCanceled)))
    /\ mu' = 0
    /\ pc' = [pc EXCEPT ![p] = GoAfterProcess(p)]
    /\ waited' = [waited EXCEPT ![p] = 0]
    /\ UNCHANGED <<lang, cfgTimeout, running, op, data, ctxDone, handle, contended,
                   workerInvoked>>
    /\ UNCHANGED <<callerHasHandle, lifecycleVars, pollVars, sideVars>>

\* ProcessAsync's send without the deferred close
GoSendDeliverNoClose(p) ==
    /\ lang = "go"
    /\ pc[p] = "send"
    /\ handle' = [handle EXCEPT
                    ![p] = [buf |-> <<GoAsyncResult(ret[p])>>, closed |-> FALSE]]
    /\ pc' = [pc EXCEPT ![p] = "done"]
    /\ UNCHANGED <<lang, cfgTimeout, status, mu, running, op, data, ctxDone, waited,
                   ret, retStatus, contended, workerInvoked, epochOpen, epochRuns>>
    /\ UNCHANGED <<resetStreak, callerHasHandle, lifecycleVars, pollVars, sideVars>>

\* ProcessAsync's select, case resultChan <- result; then the deferred close
GoSendDeliver(p) ==
    /\ lang = "go"
    /\ pc[p] = "send"
    /\ handle' = [handle EXCEPT ![p] = ClosedHandle(<<GoAsyncResult(ret[p])>>)]
    /\ pc' = [pc EXCEPT ![p] = "done"]
    /\ UNCHANGED <<lang, cfgTimeout, status, mu, running, op, data, ctxDone, waited,
                   ret, retStatus, contended, workerInvoked, epochOpen, epochRuns>>
    /\ UNCHANGED <<resetStreak, callerHasHandle, lifecycleVars, pollVars, sideVars>>

\* ProcessAsync's select, case <-ctx.Done(): return; then the deferred close
GoSendDrop(p) ==
    /\ lang = "go"
    /\ pc[p] = "send"
    /\ ctxDone[p]
    /\ handle' = [handle EXCEPT ![p] = ClosedHandle(<<>>)]
    /\ pc' = [pc EXCEPT ![p] = "done"]
    /\ UNCHANGED <<lang, cfgTimeout, status, mu, running, op, data, ctxDone, waited,
                   ret, retStatus, contended, workerInvoked, epochOpen, epochRuns>>
    /\ UNCHANGED <<resetStreak, callerHasHandle, lifecycleVars, pollVars, sideVars>>

\* Reset that writes the status without taking mu
GoResetWithoutLock ==
    /\ lang = "go"
    /\ SetStatus(StatusPending)
    /\ UNCHANGED <<lang, cfgTimeout, mu, running, op, pc, data, ctxDone, waited, ret,
                   retStatus, handle, contended, workerInvoked>>
    /\ UNCHANGED <<callerHasHandle, lifecycleVars, pollVars, sideVars>>

\* Reset that refuses a job that is not Completed or Failed
GoResetTerminalOnly ==
    /\ lang = "go"
    /\ mu = 0
    /\ status \in Terminal
    /\ SetStatus(StatusPending)
    /\ UNCHANGED <<lang, cfgTimeout, mu, running, op, pc, data, ctxDone, waited, ret,
                   retStatus, handle, contended, workerInvoked>>
    /\ UNCHANGED <<callerHasHandle, lifecycleVars, pollVars, sideVars>>

\* Reset(): under mu, m.status = StatusPending
GoReset ==
    /\ lang = "go"
    /\ mu = 0
    /\ SetStatus(StatusPending)
    /\ UNCHANGED <<lang, cfgTimeout, mu, running, op, pc, data, ctxDone, waited, ret,
                   retStatus, handle, contended, workerInvoked>>
    /\ UNCHANGED <<callerHasHandle, lifecycleVars, pollVars, sideVars>>

GoNext ==
    \/ \E p \in Procs, kind \in {"process", "processAsync"}, d \in Payloads("go") :
           GoCall(p, kind, d)
    \/ \E p \in Procs : GoCancel(p)
    \/ \E p \in Procs : GoLock(p)
    \/ \E p \in Procs : GoValidateFail(p)
    \/ \E p \in Procs : GoValidateOk(p)
    \/ \E p \in Procs : GoWorkerDone(p)
    \/ \E p \in Procs : GoWorkerCancelled(p)
    \/ \E p \in Procs : GoSendDeliver(p)
    \/ \E p \in Procs : GoSendDrop(p)
    \/ GoReset

\* ======================================================================= js
\* ApiManager.validate
JSValidate(d) == d \notin {NullData, UndefinedData}

\* new Error('Data validation failed')
JSValidationMessage == <<"Data ", "validation failed">>

\* whether JSON.stringify(data) is a string: of a function it is undefined
JSONStringifyDefined(d) == d # FunctionData

\* JSON.stringify(data).length of a text: the text and its two quotes
JSONStringifyLength(d) == Len(d) + 2

\* the object executeProcessing resolves with
JSExecuteProcessing(d) == ResultRet("success", JSONStringifyLength(d), <<>>)

\* process(data) is called: this.status = PROCESSING, on the caller's turn
JSCall(p, d) ==
    /\ lang = "js"
    /\ running = 0
    /\ Idle(p)
    /\ StartCall(p, "process", d, "validate")
    /\ SetStatus(StatusProcessing)
    /\ contended' = [contended EXCEPT ![p] = (Active \ {p}) # {}]
    /\ running' = p
    /\ UNCHANGED <<lang, cfgTimeout, mu, ctxDone>>
    /\ UNCHANGED <<lifecycleVars, pollVars, sideVars>>

\* validate fails: the throw is caught, this.status = FAILED, the promise rejects
JSValidateFail(p) ==
    /\ lang = "js"
    /\ running = p
    /\ pc[p] = "validate"
    /\ ~JSValidate(data[p])
    /\ SetStatus(StatusFailed)
    /\ Return(p, ErrorRet(JSValidationMessage))
    /\ pc' = [pc EXCEPT ![p] = "done"]
    /\ running' = 0
    /\ UNCHANGED <<lang, cfgTimeout, mu, op, data, ctxDone, waited, handle, contended,
                   workerInvoked>>
    /\ UNCHANGED <<callerHasHandle, lifecycleVars, pollVars, sideVars>>

\* validate passes: executeProcessing sets its timer and process suspends at await
JSValidateOk(p) ==
    /\ lang = "js"
    /\ running = p
    /\ pc[p] = "validate"
    /\ JSValidate(data[p])
    /\ CountWorker(p)
    /\ pc' = [pc EXCEPT ![p] = "await"]
    /\ running' = 0
    /\ UNCHANGED <<lang, cfgTimeout, mu, op, data, ctxDone, waited, ret, retStatus,
                   handle, contended>>
    /\ UNCHANGED <<callerHasHandle, lifecycleVars, pollVars, sideVars>>

\* the timer fires and resolves; process resumes: this.status = COMPLETED
JSTimerResolve(p) ==
    /\ lang = "js"
    /\ running = 0
    /\ pc[p] = "await"
    /\ waited[p] >= WorkDelayMs
    /\ JSONStringifyDefined(data[p])
    /\ SetStatus(StatusCompleted)
    /\ Return(p, JSExecuteProcessing(data[p]))
    /\ pc' = [pc EXCEPT ![p] = "done"]
    /\ waited' = [waited EXCEPT ![p] = 0]
    /\ UNCHANGED <<lang, cfgTimeout, mu, running, op, data, ctxDone, handle, contended,
                   workerInvoked>>
    /\ UNCHANGED <<callerHasHandle, lifecycleVars, pollVars, sideVars>>

\* the timer fires and JSON.stringify(data).length throws inside the timer's
\* callback: resolve is never called and process stays suspended for good
JSTimerThrow(p) ==
    /\ lang = "js"
    /\ running = 0
    /\ pc[p] = "await"
    /\ waited[p] >= WorkDelayMs
    /\ ~JSONStringifyDefined(data[p])
    /\ pc' = [pc EXCEPT ![p] = "crashed"]
    /\ waited' = [waited EXCEPT ![p] = 0]
    /\ UNCHANGED <<lang, cfgTimeout, status, mu, running, op, data, ctxDone, ret,
                   retStatus, handle, contended, workerInvoked, epochOpen, epochRuns>>
    /\ UNCHANGED <<resetStreak, callerHasHandle, lifecycleVars, pollVars, sideVars>>

\* reset(): this.status = PENDING
JSReset ==
    /\ lang = "js"
    /\ running = 0
    /\ SetStatus(StatusPending)
    /\ UNCHANGED <<lang, cfgTimeout, mu, running, op, pc, data, ctxDone, waited, ret,
                   retStatus, handle, contended, workerInvoked>>
    /\ UNCHANGED <<callerHasHandle, lifecycleVars, pollVars, sideVars>>

JSNext ==
    \/ \E p \in Procs, d \in Payloads("js") : JSCall(p, d)
    \/ \E p \in Procs : JSValidateFail(p)
    \/ \E p \in Procs : JSValidateOk(p)
    \/ \E p \in Procs : JSTimerResolve(p)
    \/ \E p \in Procs : JSTimerThrow(p)
    \/ JSReset

\* ===================================================================== time
\* a unit keeps waiting for its timer although its context is cancelled
WaitingThroughCancel(p) == pc[p] \in {"execute", "await"} /\ waited[p] < WorkDelayMs

\* the unit waits for the worker's timer; a Go select whose ctx.Done() is
\* ready is woken by it and waits no longer
Waiting(p) ==
    /\ pc[p] \in {"execute", "await"}
    /\ waited[p] < WorkDelayMs
    /\ ~(pc[p] = "execute" /\ ctxDone[p])

\* time passes for every unit waiting on the worker's timer
Tick ==
    /\ \E p \in Procs : Waiting(p)
    /\ waited' = [p \in Procs |->
                    IF Waiting(p) THEN waited[p] + TimeStep ELSE waited[p]]
    /\ UNCHANGED <<lang, cfgTimeout, status, mu, running, op, pc, data, ctxDone, ret,
                   retStatus, handle, contended, workerInvoked, epochOpen, epochRuns>>
    /\ UNCHANGED <<resetStreak, callerHasHandle, lifecycleVars, pollVars, sideVars>>

Next ==
    \/ GoNext
    \/ JavaNext
    \/ JSNext
    \/ Tick

Spec == Init /\ [][Next]_vars

\* ============================================== status queries and Close
\* GetStatus() is called: m.mu.RLock() is requested
GoGetStatusCall ==
    /\ lang = "go"
    /\ query = "idle"
    /\ query' = "waiting"
    /\ UNCHANGED <<managerVars, seen, closed, afterClose, pollVars, sideVars>>

\* m.mu.RLock() is granted once no Process holds m.mu; return m.status
GoGetStatusReturn ==
    /\ lang = "go"
    /\ query = "waiting"
    /\ mu = 0
    /\ seen' = status
    /\ query' = "idle"
    /\ UNCHANGED <<managerVars, closed, afterClose, pollVars, sideVars>>

\* getStatus(): return status, of the volatile field, with no lock
JavaGetStatus ==
    /\ lang = "java"
    /\ seen' = status
    /\ UNCHANGED <<managerVars, query, closed, afterClose, pollVars, sideVars>>

\* getStatus(): return this.status, on a turn of its own
JSGetStatus ==
    /\ lang = "js"
    /\ running = 0
    /\ seen' = status
    /\ UNCHANGED <<managerVars, query, closed, afterClose, pollVars, sideVars>>

\* Close(): m.mu.Lock(), the log line, return nil
GoClose ==
    /\ lang = "go"
    /\ mu = 0
    /\ ~closed
    /\ closed' = TRUE
    /\ UNCHANGED <<managerVars, query, seen, afterClose, pollVars, sideVars>>

LifecycleNext ==
    \/ GoGetStatusCall
    \/ GoGetStatusReturn
    \/ JavaGetStatus
    \/ JSGetStatus
    \/ GoClose

\* the managers with their status queries and Close
SpecLifecycle == Init /\ [][Next \/ LifecycleNext]_vars

\* ======================================================= pollReview (client)
\* ApiService.pollReview of the web client: it asks the server for the review
\* until the review is completed or failed.  What a getReview comes back with
\* is the server's choice; the onProgress callbacks the application passes only
\* set state and do not throw.

\* API_CONFIG.MAX_POLL_ATTEMPTS
MAX_POLL_ATTEMPTS == 60

\* API_CONFIG.POLL_INTERVAL, in milliseconds
POLL_INTERVAL == 2000

\* the ApiError handleResponse throws for a 404 response
NotFound == "NotFound"

\* what getReview throws: the ApiError of a response that is not ok, or the
\* TypeError of a fetch that did not get a response
GetErrors == {NotFound, "ServerError", "BadGateway", "NetworkError"}

\* the errors that are the ApiError object of handleResponse
ApiErrors == {NotFound, "ServerError", "BadGateway"}

\* ApiError.detail: errorData.detail of the JSON body of the response; the
\* 500 response has a body without it and the 502 of a gateway has no JSON body
ApiErrorDetail(e) == IF e = NotFound THEN "Review not found" ELSE NullData

\* ApiError.error: errorData.error || errorData.detail || response.statusText,
\* or response.statusText alone when the body is not JSON; the statusText of
\* a response received over HTTP/2 is the empty string
ApiErrorText(e) ==
    CASE e = NotFound -> "Review not found"
      [] e = "ServerError" -> "Internal Server Error"
      [] OTHER -> ""

\* ReviewStatus
ReviewStatuses == {StatusPending, StatusProcessing, StatusCompleted, StatusFailed}

\* everything one getReview can come back with
GetOutcomes == ReviewStatuses \cup GetErrors

\* new Error('Review processing timeout')
TimeoutError == "Review processing timeout"

\* only a completed review ends the loop
IsTerminalCompletedOnly(st) == st = StatusCompleted

\* review.status === 'completed' || review.status === 'failed'
IsTerminal(st) == st \in Terminal

\* no attempt is the last one
LastAttemptNever(a) == FALSE

\* the attempt before the last one counts as the last
LastAttemptOneEarly(a) == a >= MAX_POLL_ATTEMPTS - 2

\* attempts >= maxAttempts - 1
LastAttempt(a) == a >= MAX_POLL_ATTEMPTS - 1

\* attempts is left as it is
AttemptsUnchanged(a) == a

\* attempts++
AttemptsPlusPlus(a) == a + 1

\* a history counter is stepped; it stops one above MAX_POLL_ATTEMPTS
Count(n) == IF n <= MAX_POLL_ATTEMPTS THEN n + 1 ELSE n

\* the time the call has slept
Slept == sleeps * POLL_INTERVAL

\* pollReview is over
PollEnded == pollPc \in {"returned", "thrown"}

\* const maxAttempts = ...; let attempts = 0; the loop is entered
PollStart ==
    /\ pollPc \in {"idle", "returned", "thrown"}
    /\ pollPc' = "loop"
    /\ attempts' = 0
    /\ lastGet' = "none"
    /\ gets' = 0
    /\ sleeps' = 0
    /\ sleptSinceGet' = 0
    /\ pollOut' = "none"

\* pollReview(reviewId, onProgress) is called: attempts = 0
PollCall ==
    /\ PollStart
    /\ UNCHANGED <<managerVars, lifecycleVars, sideVars>>

\* while (attempts < maxAttempts): await this.getReview(reviewId) comes back
\* with a review in status o, or throws o
PollGot(o) ==
    /\ pollPc = "loop"
    /\ attempts < MAX_POLL_ATTEMPTS
    /\ lastGet' = o
    /\ gets' = Count(gets)
    /\ sleptSinceGet' = 0
    /\ pollPc' = "got"
    /\ UNCHANGED <<attempts, sleeps, pollOut>>

\* getReview comes back to a pollReview that was given no onProgress
PollGet(o) ==
    /\ PollGot(o)
    /\ UNCHANGED <<managerVars, lifecycleVars, sideVars>>

\* the review is completed or failed: return review
PollReturn ==
    /\ pollPc = "got"
    /\ lastGet \in ReviewStatuses
    /\ IsTerminal(lastGet)
    /\ pollOut' = lastGet
    /\ pollPc' = "returned"
    /\ UNCHANGED <<managerVars, lifecycleVars, sideVars, attempts, lastGet, gets, sleeps,
                   sleptSinceGet>>

\* the review is not finished: sleep POLL_INTERVAL, attempts++
PollSleep ==
    /\ pollPc = "got"
    /\ lastGet \in ReviewStatuses
    /\ ~IsTerminal(lastGet)
    /\ sleeps' = Count(sleeps)
    /\ sleptSinceGet' = sleptSinceGet + 1
    /\ attempts' = AttemptsPlusPlus(attempts)
    /\ pollPc' = "loop"
    /\ UNCHANGED <<managerVars, lifecycleVars, sideVars, lastGet, gets, pollOut>>

\* getReview threw on the last attempt: throw error
PollRethrow ==
    /\ pollPc = "got"
    /\ lastGet \in GetErrors
    /\ LastAttempt(attempts)
    /\ pollOut' = lastGet
    /\ pollPc' = "thrown"
    /\ UNCHANGED <<managerVars, lifecycleVars, sideVars, attempts, lastGet, gets, sleeps,
                   sleptSinceGet>>

\* getReview threw on an earlier attempt: sleep POLL_INTERVAL, attempts++
PollSwallow ==
    /\ pollPc = "got"
    /\ lastGet \in GetErrors
    /\ ~LastAttempt(attempts)
    /\ sleeps' = Count(sleeps)
    /\ sleptSinceGet' = sleptSinceGet + 1
    /\ attempts' = AttemptsPlusPlus(attempts)
    /\ pollPc' = "loop"
    /\ UNCHANGED <<managerVars, lifecycleVars, sideVars, lastGet, gets, pollOut>>

\* the loop is left: throw new Error('Review processing timeout')
PollTimeout ==
    /\ pollPc = "loop"
    /\ attempts >= MAX_POLL_ATTEMPTS
    /\ pollOut' = TimeoutError
    /\ pollPc' = "thrown"
    /\ UNCHANGED <<managerVars, lifecycleVars, sideVars, attempts, lastGet, gets, sleeps,
                   sleptSinceGet>>

PollNext ==
    \/ PollCall
    \/ \E o \in GetOutcomes : PollGet(o)
    \/ PollReturn
    \/ PollSleep
    \/ PollRethrow
    \/ PollSwallow
    \/ PollTimeout

\* the client alone: no manager is involved
PollInit ==
    /\ lang = "ts"
    /\ cfgTimeout = DefaultTimeoutMs
    /\ ManagerFresh
    /\ LifecycleFresh
    /\ PollFresh
    /\ CreateFresh
    /\ CppFresh
    /\ AppFresh

\* every getReview and every sleep of a call comes back
PollSpec == PollInit /\ [][PollNext]_vars /\ WF_vars(PollNext)

\* ====================================================================== c++
\* MonitoringManager: status_ is a plain field (mutable Status status_), written
\* by process on whatever thread runs it and read by getStatus with no lock
\* and no atomic.  A read that is not ordered after a write is a data race; it
\* returns the current status or one that was overwritten.

\* the strings a caller passes to process(const std::string&)
CppPayloads == {"", "resume.pdf"}

\* MonitoringManager::validate
CppValidate(d) == d # ""

\* std::invalid_argument("Data validation failed"), rethrown by throw;
CppValidationMessage == <<"Data validation failed">>

\* what process returns from executeProcessing
CppExecuteProcessing(d) == ResultRet("success", Len(d), <<>>)

\* the shared state of the std::future of processAsync
CppFuture(p, r) ==
    IF op[p] = "processAsync" THEN ClosedHandle(<<r>>) ELSE handle[p]

\* status_ = s on the thread of unit p: the value it overwrites stays visible
\* to a reader until the writer is joined
CppWrite(p, s) ==
    /\ SetStatus(s)
    /\ stale' = IF s # status THEN stale \cup {status} ELSE stale
    /\ unjoined' = unjoined \cup {p}

\* process(data) is called on a thread, or processAsync(data) starts one with
\* std::async(std::launch::async, ...)
CppCall(p, kind, d) ==
    /\ lang = "cpp"
    /\ Idle(p)
    /\ StartCall(p, kind, d, "start")
    /\ contended' = [contended EXCEPT ![p] = FALSE]
    /\ UNCHANGED <<lang, cfgTimeout, status, mu, running, ctxDone, epochOpen,
                   epochRuns>>
    /\ UNCHANGED <<resetStreak, lifecycleVars, pollVars, sideVars>>

\* status_ = Status::PROCESSING
CppBegin(p) ==
    /\ lang = "cpp"
    /\ pc[p] = "start"
    /\ CppWrite(p, StatusProcessing)
    /\ contended' = [contended EXCEPT ![p] = (Active \ {p}) # {}]
    /\ pc' = [pc EXCEPT ![p] = "validate"]
    /\ UNCHANGED <<lang, cfgTimeout, mu, running, op, data, ctxDone, waited, ret,
                   retStatus, handle, workerInvoked>>
    /\ UNCHANGED <<callerHasHandle, lifecycleVars, pollVars, createVars, appVars>>

\* validate fails: the exception is caught, status_ = Status::FAILED, throw;
CppValidateFail(p) ==
    /\ lang = "cpp"
    /\ pc[p] = "validate"
    /\ ~CppValidate(data[p])
    /\ CppWrite(p, StatusFailed)
    /\ Return(p, ErrorRet(CppValidationMessage))
    /\ handle' = [handle EXCEPT ![p] = CppFuture(p, ErrorRet(CppValidationMessage))]
    /\ pc' = [pc EXCEPT ![p] = "done"]
    /\ UNCHANGED <<lang, cfgTimeout, mu, running, op, data, ctxDone, waited, contended,
                   workerInvoked>>
    /\ UNCHANGED <<callerHasHandle, lifecycleVars, pollVars, createVars, appVars>>

\* validate passes and executeProcessing builds the result
CppExecute(p) ==
    /\ lang = "cpp"
    /\ pc[p] = "validate"
    /\ CppValidate(data[p])
    /\ CountWorker(p)
    /\ pc' = [pc EXCEPT ![p] = "complete"]
    /\ UNCHANGED <<lang, cfgTimeout, mu, running, op, data, ctxDone, waited, ret,
                   retStatus, handle, contended>>
    /\ UNCHANGED <<callerHasHandle, lifecycleVars, pollVars, sideVars>>

\* status_ = Status::COMPLETED; return result
CppComplete(p) ==
    /\ lang = "cpp"
    /\ pc[p] = "complete"
    /\ CppWrite(p, StatusCompleted)
    /\ Return(p, CppExecuteProcessing(data[p]))
    /\ handle' = [handle EXCEPT ![p] = CppFuture(p, CppExecuteProcessing(data[p]))]
    /\ pc' = [pc EXCEPT ![p] = "done"]
    /\ UNCHANGED <<lang, cfgTimeout, mu, running, op, data, ctxDone, waited, contended,
                   workerInvoked>>
    /\ UNCHANGED <<callerHasHandle, lifecycleVars, pollVars, createVars, appVars>>

\* reset(), called by the reading thread: status_ = Status::PENDING
CppReset ==
    /\ lang = "cpp"
    /\ SetStatus(StatusPending)
    /\ stale' = IF unjoined = {} THEN {}
                ELSE IF status # StatusPending THEN stale \cup {status}
                ELSE stale
    /\ UNCHANGED <<lang, cfgTimeout, mu, running, op, pc, data, ctxDone, waited, ret,
                   retStatus, handle, contended, workerInvoked>>
    /\ UNCHANGED <<callerHasHandle, lifecycleVars, pollVars, createVars, unjoined,
                   appVars>>

\* the reading thread calls get() on the future of a finished processAsync:
\* the writes of that thread are ordered before what the reader does next
CppFutureGet(p) ==
    /\ lang = "cpp"
    /\ op[p] = "processAsync"
    /\ pc[p] = "done"
    /\ p \in unjoined
    /\ unjoined' = unjoined \ {p}
    /\ stale' = IF unjoined \ {p} = {} THEN {} ELSE stale
    /\ UNCHANGED <<managerVars, lifecycleVars, pollVars, createVars, appVars>>

\* getStatus(): return status_, a plain read
CppGetStatus ==
    /\ lang = "cpp"
    /\ seen' \in stale \cup {status}
    /\ UNCHANGED <<managerVars, query, closed, afterClose, pollVars, sideVars>>

CppNext ==
    \/ \E p \in Procs, kind \in {"process", "processAsync"}, d \in CppPayloads :
           CppCall(p, kind, d)
    \/ \E p \in Procs : CppBegin(p)
    \/ \E p \in Procs : CppValidateFail(p)
    \/ \E p \in Procs : CppExecute(p)
    \/ \E p \in Procs : CppComplete(p)
    \/ \E p \in Procs : CppFutureGet(p)
    \/ CppReset
    \/ CppGetStatus

\* MonitoringManager(const Config& config = Config()): status_(Status::PENDING)
CppInit ==
    /\ lang = "cpp"
    /\ cfgTimeout = DefaultTimeoutMs
    /\ ManagerFresh
    /\ LifecycleFresh
    /\ PollFresh
    /\ CreateFresh
    /\ CppFresh
    /\ AppFresh

SpecCpp == CppInit /\ [][CppNext]_vars

\* ================================================= making a manager
\* A manager is made from a configuration object, or from none, and the
\* configuration is then written by the caller and through GetConfig.

\* construction leaves every variable of the calls as ManagerFresh has it
MadeWith(outcome, passed, held) ==
    /\ made = "no"
    /\ made' = outcome
    /\ callerCfg' = passed
    /\ heldCfg' = held
    /\ createdWith' = held
    /\ UNCHANGED <<lang, cfgTimeout, managerVars, lifecycleVars, pollVars, cppVars,
                   appVars>>

\* NewManager: a nil config is replaced by DefaultConfig(), any other pointer
\* is stored as it is; setupLogging only logs
NewManager(c) ==
    /\ lang = "go"
    /\ MadeWith("ok", c, IF c = MissingConfig THEN DefaultConfig("go") ELSE c)

\* the Java constructor: the reference is stored (new Config() for null), the
\* status set, and setupLogging parses the level name, which throws out of
\* the constructor for a name Level.parse does not know
JavaConstructor(c) ==
    /\ lang = "java"
    /\ LET held == IF c = MissingConfig THEN DefaultConfig("java") ELSE c
       IN  MadeWith(IF held.logLevel \in JavaLevelNames THEN "ok" ELSE "threw",
                    c, held)

\* the JavaScript constructor: the defaults and the fields of the passed
\* object are spread into a new object
JSConstructor(c) ==
    /\ lang = "js"
    /\ LET passed == IF c = MissingConfig THEN <<>> ELSE c
           held == [f \in DOMAIN DefaultConfig("js") |->
                       IF f \in DOMAIN passed THEN passed[f]
                       ELSE DefaultConfig("js")[f]]
       IN  MadeWith("ok", c, held)

\* the manager holds the very object the caller passed: the Go pointer and
\* the Java reference; the JavaScript manager holds its own object
Aliased == lang \in {"go", "java"} /\ callerCfg # MissingConfig

\* the caller writes a field of the object it passed
CallerWritesConfig ==
    /\ made = "ok"
    /\ callerCfg # MissingConfig
    /\ \E c \in FieldWrites(lang, callerCfg) :
        /\ callerCfg' = c
        /\ heldCfg' = IF Aliased THEN c ELSE heldCfg
    /\ UNCHANGED <<lang, cfgTimeout, managerVars, lifecycleVars, pollVars,
                   made, createdWith, cppVars, appVars>>

\* GetConfig / getConfig return the held pointer or reference, and the caller
\* writes a field through it; the JavaScript manager has no such method
GetConfigWrite ==
    /\ made = "ok"
    /\ lang \in {"go", "java"}
    /\ \E c \in FieldWrites(lang, heldCfg) :
        /\ heldCfg' = c
        /\ callerCfg' = IF Aliased THEN c ELSE callerCfg
    /\ UNCHANGED <<lang, cfgTimeout, managerVars, lifecycleVars, pollVars,
                   made, createdWith, cppVars, appVars>>

CreateNext ==
    \/ \E c \in Configs("go") \cup {MissingConfig} : NewManager(c)
    \/ \E c \in Configs("java") \cup {MissingConfig} : JavaConstructor(c)
    \/ \E c \in Configs("js") \cup {MissingConfig} : JSConstructor(c)
    \/ CallerWritesConfig
    \/ GetConfigWrite

\* no manager is made yet
CreateInit ==
    /\ lang \in Langs
    /\ cfgTimeout = DefaultTimeoutMs
    /\ ManagerFresh
    /\ LifecycleFresh
    /\ PollFresh
    /\ made = "no"
    /\ callerCfg = MissingConfig
    /\ heldCfg = MissingConfig
    /\ createdWith = MissingConfig
    /\ CppFresh
    /\ AppFresh

CreateSpec == CreateInit /\ [][CreateNext]_vars

\* ========================================================= the application
\* App.tsx: the user gives a file to handleFileUpload in the UPLOAD step, and
\* in the ERROR step presses Try Again (handleRetry) or Start Over (resetApp);
\* RESULTS offers resetApp.  PROCESSING offers nothing.

\* the uploads of one session
MaxUploads == 2

\* FILE_CONFIG.MAX_SIZE, in bytes
MAX_SIZE == 10 * 1024 * 1024

\* FILE_CONFIG.ALLOWED_TYPES
ALLOWED_TYPES == {"application/pdf"}

\* the files a user may choose: a PDF or an image, below, at and above the limit
Files == [type : {"application/pdf", "image/png"}, size : {1, MAX_SIZE, MAX_SIZE + 1}]

\* APP_STRINGS
ERROR_UPLOAD == "Failed to upload your CV. Please try again."
ERROR_PROCESSING == "Failed to process your CV. Our roaster might be taking a coffee break!"

\* the messages of validateFile; formatFileSize(MAX_SIZE) is "10 MB"
FileTypeMessage == "Please upload a PDF file only."
FileSizeMessage == "File size exceeds the maximum limit of 10 MB."

\* a || b of JavaScript for strings: null and the empty string are falsy
OrElse(a, b) == IF a \in {NullData, ""} THEN b ELSE a

\* validateFile that rejects a file of exactly the limit
ValidateFileBelowLimit(f) ==
    IF f.type \notin ALLOWED_TYPES
    THEN [isValid |-> FALSE, error |-> FileTypeMessage]
    ELSE IF f.size >= MAX_SIZE
    THEN [isValid |-> FALSE, error |-> FileSizeMessage]
    ELSE [isValid |-> TRUE, error |-> NullData]

\* validateFile
ValidateFile(f) ==
    IF f.type \notin ALLOWED_TYPES
    THEN [isValid |-> FALSE, error |-> FileTypeMessage]
    ELSE IF f.size > MAX_SIZE
    THEN [isValid |-> FALSE, error |-> FileSizeMessage]
    ELSE [isValid |-> TRUE, error |-> NullData]

\* the review_id of the n-th upload of the session
ReviewIdOf(n) == <<"review", n>>

\* what uploadCV throws
UploadErrors == {"ServerError", "BadGateway", "NetworkError"}

\* the message a review in status failed may carry
ServerErrorMessage == "Could not read the CV"

\* the ReviewResponse bodies of a getReview that came back with status o
Responses(o) ==
    IF o = StatusCompleted
    THEN {[status |-> o, body |-> b, error_message |-> NullData] : b \in BOOLEAN}
    ELSE IF o = StatusFailed
    THEN {[status |-> o, body |-> FALSE, error_message |-> m] :
             m \in {NullData, ServerErrorMessage}}
    ELSE IF o \in ReviewStatuses
    THEN {[status |-> o, body |-> FALSE, error_message |-> NullData]}
    ELSE {NoReview}

\* getErrorMessage: error.detail || error.error of an ApiError, the message
\* of an Error; a text stands for the Error made with that message
GetErrorMessage(e) ==
    IF e \in ApiErrors THEN OrElse(ApiErrorDetail(e), ApiErrorText(e))
    ELSE IF e = "NetworkError" THEN "Failed to fetch"
    ELSE e

\* Math.min(prev.uploadProgress + 15, 90)
OnProgress(n) == IF n + 15 < 90 THEN n + 15 ELSE 90

\* a catch that stores the error and leaves the step as it is
UploadCatchKeepsStep(e) ==
    [appState EXCEPT !.error = GetErrorMessage(e), !.isLoading = FALSE,
                     !.uploadProgress = 0]

\* the catch of handleFileUpload
UploadCatch(e) ==
    [appState EXCEPT !.error = GetErrorMessage(e), !.isLoading = FALSE,
                     !.currentStep = "ERROR", !.uploadProgress = 0]

\* the .catch of handleRetry
RetryCatch(e) ==
    [appState EXCEPT !.error = GetErrorMessage(e), !.isLoading = FALSE,
                     !.currentStep = "ERROR"]

\* a review shown with the loading flag left on
ShowResultsKeepsLoading(r) ==
    [appState EXCEPT !.review = r, !.currentStep = "RESULTS", !.uploadProgress = 100]

\* the review is shown
ShowResults(r) ==
    [appState EXCEPT !.review = r, !.isLoading = FALSE, !.currentStep = "RESULTS",
                     !.uploadProgress = 100]

\* a retry that shows every completed review
RetrySucceedsWithoutBody(r) == r.status = StatusCompleted

\* review.status === 'completed' && review.review
RetrySucceeds(r) == r.status = StatusCompleted /\ r.body

\* handleFileUpload(file), up to its first await
HandleFileUpload(f) ==
    /\ appPc = "idle"
    /\ appState.currentStep = "UPLOAD"
    /\ file' = f
    /\ lastHandler' = "handleFileUpload"
    /\ IF ~ValidateFile(f).isValid
       THEN /\ appState' = [appState EXCEPT
                               !.error = OrElse(ValidateFile(f).error, ERROR_UPLOAD),
                               !.currentStep = "ERROR"]
            /\ UNCHANGED <<appPc, uploads>>
       ELSE /\ uploads < MaxUploads
            /\ appState' = [appState EXCEPT !.isLoading = TRUE, !.error = NullData,
                                            !.currentStep = "PROCESSING",
                                            !.uploadProgress = 0]
            /\ uploads' = uploads + 1
            /\ appPc' = "uploading"
    /\ UNCHANGED <<lang, cfgTimeout, managerVars, lifecycleVars, pollVars, createVars,
                   cppVars, polledId, response>>

\* uploadCV comes back: reviewId is stored and pollReview is called with it
UploadReturns ==
    /\ appPc = "uploading"
    /\ appState' = [appState EXCEPT !.reviewId = ReviewIdOf(uploads),
                                    !.uploadProgress = 20]
    /\ polledId' = ReviewIdOf(uploads)
    /\ PollStart
    /\ appPc' = "polling"
    /\ UNCHANGED <<lang, cfgTimeout, managerVars, lifecycleVars, createVars, cppVars,
                   file, uploads, response, lastHandler>>

\* uploadCV throws: the catch of handleFileUpload
UploadThrows(e) ==
    /\ appPc = "uploading"
    /\ appState' = UploadCatch(e)
    /\ appPc' = "idle"
    /\ UNCHANGED <<lang, cfgTimeout, managerVars, lifecycleVars, pollVars, createVars,
                   cppVars, file, uploads, polledId, response, lastHandler>>

\* a getReview of the application's pollReview comes back; handleFileUpload
\* passed an onProgress, handleRetry did not
AppPollGet(o, r) ==
    /\ appPc \in {"polling", "retrying"}
    /\ PollGot(o)
    /\ response' = r
    /\ appState' = IF appPc = "polling" /\ o \in ReviewStatuses
                   THEN [appState EXCEPT !.uploadProgress = OnProgress(@)]
                   ELSE appState
    /\ UNCHANGED <<lang, cfgTimeout, managerVars, lifecycleVars, createVars, cppVars,
                   appPc, file, uploads, polledId, lastHandler>>

\* the other steps of the application's pollReview
AppPollStep ==
    /\ appPc \in {"polling", "retrying"}
    /\ (PollReturn \/ PollSleep \/ PollRethrow \/ PollSwallow \/ PollTimeout)

\* handleFileUpload after await pollReview
UploadPollDone ==
    /\ appPc = "polling"
    /\ PollEnded
    /\ appState' =
           IF pollPc = "thrown" THEN UploadCatch(pollOut)
           ELSE IF response.status = StatusFailed
           THEN UploadCatch(OrElse(response.error_message, ERROR_PROCESSING))
           ELSE IF response.status = StatusCompleted /\ response.body
           THEN ShowResults(response)
           ELSE UploadCatch(ERROR_PROCESSING)
    /\ appPc' = "idle"
    /\ UNCHANGED <<lang, cfgTimeout, managerVars, lifecycleVars, pollVars, createVars,
                   cppVars, file, uploads, polledId, response, lastHandler>>

\* resetApp's setAppState
ResetApp ==
    /\ appPc = "idle"
    /\ appState.currentStep \in {"ERROR", "RESULTS"}
    /\ appState' = InitialAppState
    /\ lastHandler' = "resetApp"
    /\ UNCHANGED <<lang, cfgTimeout, managerVars, lifecycleVars, pollVars, createVars,
                   cppVars, appPc, file, uploads, polledId, response>>

\* handleRetry: with a reviewId pollReview is called again, without one the
\* application is reset
HandleRetry ==
    /\ appPc = "idle"
    /\ appState.currentStep = "ERROR"
    /\ lastHandler' = "handleRetry"
    /\ IF appState.reviewId # NoReviewId
       THEN /\ appState' = [appState EXCEPT !.isLoading = TRUE, !.error = NullData,
                                            !.currentStep = "PROCESSING",
                                            !.uploadProgress = 50]
            /\ polledId' = appState.reviewId
            /\ PollStart
            /\ appPc' = "retrying"
       ELSE /\ appState' = InitialAppState
            /\ UNCHANGED <<pollVars, polledId, appPc>>
    /\ UNCHANGED <<lang, cfgTimeout, managerVars, lifecycleVars, createVars, cppVars,
                   file, uploads, response>>

\* the .then and .catch of handleRetry
RetryPollDone ==
    /\ appPc = "retrying"
    /\ PollEnded
    /\ appState' =
           IF pollPc = "thrown" THEN RetryCatch(pollOut)
           ELSE IF RetrySucceeds(response) THEN ShowResults(response)
           ELSE RetryCatch(OrElse(response.error_message, ERROR_PROCESSING))
    /\ appPc' = "idle"
    /\ UNCHANGED <<lang, cfgTimeout, managerVars, lifecycleVars, pollVars, createVars,
                   cppVars, file, uploads, polledId, response, lastHandler>>

AppNext ==
    \/ \E f \in Files : HandleFileUpload(f)
    \/ UploadReturns
    \/ \E e \in UploadErrors : UploadThrows(e)
    \/ \E o \in GetOutcomes : \E r \in Responses(o) : AppPollGet(o, r)
    \/ AppPollStep
    \/ UploadPollDone
    \/ ResetApp
    \/ HandleRetry
    \/ RetryPollDone

AppSpec == PollInit /\ [][AppNext]_vars

\* what the application does without the user: a request comes back and the
\* code after the await runs
AppProgress ==
    \/ UploadReturns
    \/ \E e \in UploadErrors : UploadThrows(e)
    \/ \E o \in GetOutcomes : \E r \in Responses(o) : AppPollGet(o, r)
    \/ AppPollStep
    \/ UploadPollDone
    \/ RetryPollDone

\* the application when every request returns or throws and every timer fires
AppFairSpec == PollInit /\ [][AppNext]_vars /\ WF_vars(AppProgress)

\* =================================================================== claims
\* the payloads a validator rejects: null, nil, undefined
RejectedPayloads == {NullData, UndefinedData}

\* the run of unit p is over: process returned, or it can never resume
RunOver(p) == ret[p].kind # "none" \/ pc[p] = "crashed"

\* C1: of the executions started concurrently on one job exactly one claims the
\* Processing state and proceeds; an execution that finds another one holding the
\* job is rejected with AlreadyRunning and never enters the pipeline.
C1_OnlyOneClaims ==
    \A p \in Procs :
        contended[p] =>
            /\ pc[p] \notin Pipeline
            /\ ~workerInvoked[p]
            /\ RunOver(p) => Contains(ret[p].message, "AlreadyRunning")

\* C2: at every moment at most one execution is inside the validate-then-worker
\* pipeline of the job.
C2_AtMostOneActive == Cardinality(Active) <= 1

C3_Edges ==
    { <<StatusPending, StatusProcessing>>,
      <<StatusProcessing, StatusCompleted>>,
      <<StatusProcessing, StatusFailed>>,
      <<StatusCompleted, StatusPending>>,
      <<StatusFailed, StatusPending>> }

\* C3: every change of the status follows Pending->Processing,
\* Processing->Completed, Processing->Failed, Completed->Pending or
\* Failed->Pending.
C3_StatusFollowsEdges == [][status' # status => <<status, status'>> \in C3_Edges]_vars

\* C4: a Reset performed while the status is Processing leaves it Processing.
C4_ResetLeavesProcessing ==
    [][(status = StatusProcessing /\ (GoReset \/ JavaReset \/ JSReset))
          => status' = StatusProcessing]_vars

C6_AcceptedPayloadCompletes ==
    \A p \in Procs :
        (op[p] # "none" /\ data[p] \notin RejectedPayloads /\ ~ctxDone[p]
           /\ RunOver(p)) =>
            /\ ret[p].kind = "result"
            /\ retStatus[p] = StatusCompleted

\* C7: no execution is still waiting for the worker after config.timeout has
\* elapsed.
C7_StopsWaitingAtTimeout ==
    \A p \in Procs : pc[p] \in {"execute", "await"} => waited[p] <= cfgTimeout

\* C8: a Completed or Failed status changes only by a Reset or by a new run
\* claiming the job; the end of an earlier execution never alters it.
C8_TerminalIsStable ==
    [][(status \in Terminal /\ status' # status)
          => status' \in {StatusPending, StatusProcessing}]_vars

\* C9: between the job entering Pending and its next terminal status the worker
\* is invoked at most once.
C9_WorkerOncePerEpoch == epochRuns <= 1

\* C10: when an asynchronous submission has finished, its handle holds exactly
\* the outcome of the run: the result, or the error with its message.
C10_HandleHoldsRunOutcome ==
    \A p \in Procs :
        (op[p] = "processAsync" /\ pc[p] = "done") =>
            /\ handle[p].closed
            /\ Len(handle[p].buf) = 1
            /\ ret[p].kind = "result" => handle[p].buf[1] = ret[p]
            /\ ret[p].kind = "error" =>
                  /\ handle[p].buf[1].message = ret[p].message
                  /\ handle[p].buf[1].kind = "error"
                       \/ handle[p].buf[1].status = "error"

C12_StatusQueryNeverWaits == query = "waiting" => mu = 0

\* C17: an execution attempt made after Close has returned never enters the
\* pipeline, never invokes the worker, and ends with an error.
C17_NoRunAfterClose ==
    \A p \in Procs :
        afterClose[p] =>
            /\ pc[p] \notin Pipeline
            /\ ~workerInvoked[p]
            /\ RunOver(p) => ret[p].kind = "error"

\* C18: an execution attempt that found another execution holding the job
\* changes nothing: no step of it writes the status or invokes the worker.
C18_RejectedAttemptChangesNothing ==
    [][\A p \in Procs :
          (contended[p] /\ ~Idle(p) /\ pc'[p] # pc[p]) =>
              /\ status' = status
              /\ workerInvoked'[p] = workerInvoked[p]]_vars

\* a Reset of any of the managers
ResetAny == GoReset \/ JavaReset \/ JSReset

\* what a call in flight and its caller hold
CallState == <<mu, running, op, pc, data, ctxDone, waited, ret, retStatus, handle>>

\* C19: while the status is not Processing a Reset can be applied and leaves
\* the status Pending; a Reset applied right after a Reset can be applied too
\* and changes nothing: the status stays Pending and no call is touched.
C19_ResetIdempotent ==
    /\ [](status # StatusProcessing => ENABLED ResetAny)
    /\ [][ResetAny =>
            /\ status # StatusProcessing => status' = StatusPending
            /\ resetStreak >= 1 => (status' = status /\ UNCHANGED CallState)]_vars

\* C19 happens: two Resets were applied in a row, the first to a job that a run
\* had left Completed or Failed, and the status is Pending.
C19_Witness ==
    /\ resetStreak = 2
    /\ status = StatusPending
    /\ \E p \in Procs : retStatus[p] \in Terminal

C13_PollReturnsAtFirstTerminal ==
    /\ [](/\ gets <= MAX_POLL_ATTEMPTS
          /\ (pollPc = "returned") =>
                (lastGet \in Terminal /\ pollOut = lastGet /\ sleptSinceGet = 0)
          /\ (pollPc = "loop" /\ gets > 0) => (sleptSinceGet = 1))
    /\ [][
          /\ (pollPc = "got" /\ lastGet \in Terminal) =>
                (pollPc' = "returned" /\ gets' = gets /\ sleeps' = sleeps)
          /\ (pollPc = "got" /\ lastGet \in ReviewStatuses \ Terminal) =>
                (pollPc' = "loop" /\ gets' = gets /\ sleeps' = sleeps + 1)
          /\ (pollPc = "returned" /\ pollPc' = "returned") =>
                (gets' = gets /\ sleeps' = sleeps)
       ]_vars

\* C13 happens: pollReview has returned a failed review at its third getReview,
\* having slept twice.
C13_Witness ==
    /\ pollPc = "returned"
    /\ pollOut = StatusFailed
    /\ gets = 3
    /\ sleeps = 2
    /\ Slept = 2 * POLL_INTERVAL

\* C14 as stated: a pollReview call that issued maxAttempts getReviews, none of
\* which observed completed or failed, ends with the timeout error.
C14_ExhaustedMeansTimeout ==
    (PollEnded /\ gets = MAX_POLL_ATTEMPTS /\ lastGet \notin Terminal) =>
        pollOut = TimeoutError

\* C14: a pollReview call that issued maxAttempts getReviews ends with the
\* timeout error if the last of them returned a status that is not completed or
\* failed, and with the error of the last getReview if that one threw; the
\* timeout error is the outcome of no other call.
C14_ExhaustedOutcome ==
    /\ (PollEnded /\ gets = MAX_POLL_ATTEMPTS /\ lastGet \in ReviewStatuses \ Terminal)
          => pollOut = TimeoutError
    /\ (PollEnded /\ gets = MAX_POLL_ATTEMPTS /\ lastGet \in GetErrors)
          => pollOut = lastGet
    /\ (pollOut = TimeoutError)
          => (gets = MAX_POLL_ATTEMPTS /\ lastGet \in ReviewStatuses \ Terminal)

\* C14 happens: a call has used up its attempts and thrown the timeout error.
C14_Witness ==
    /\ pollPc = "thrown"
    /\ pollOut = TimeoutError
    /\ gets = MAX_POLL_ATTEMPTS
    /\ sleeps = MAX_POLL_ATTEMPTS

\* C15: every pollReview call ends, by a return or a throw, and it has gone
\* round its loop at most maxAttempts times.
C15_PollTerminates ==
    /\ [](gets <= MAX_POLL_ATTEMPTS /\ attempts <= MAX_POLL_ATTEMPTS)
    /\ (pollPc \in {"loop", "got"}) ~> PollEnded

\* C15 happens: a call has ended after going round its loop maxAttempts times,
\* the last getReview having returned a status.
C15_Witness ==
    /\ PollEnded
    /\ gets = MAX_POLL_ATTEMPTS
    /\ attempts = MAX_POLL_ATTEMPTS
    /\ lastGet = StatusProcessing

\* C16: once a getReview has reported NotFound, pollReview goes no further
\* than throwing that error.
C16_NotFoundStopsPolling ==
    lastGet = NotFound =>
        \/ pollPc = "got"
        \/ pollPc = "thrown" /\ pollOut = NotFound

\* the TypeError of JSON.stringify(data).length when JSON.stringify gives undefined
JSTypeErrorMessage == <<"Cannot read properties of undefined (reading 'length')">>

\* the worker of the run of unit p reported an error
WorkerErrored(p) ==
    \/ pc[p] = "crashed"
    \/ workerInvoked[p] /\ ret[p].kind = "error"

\* the message of the error the worker of unit p reported
WorkerMessage(p) == IF lang = "js" THEN JSTypeErrorMessage ELSE GoContextCanceled

\* C21: when the worker of a run has reported an error, the run has returned
\* an error that carries the worker's message, and left the status Failed.
C21_WorkerErrorIsReturned ==
    \A p \in Procs :
        WorkerErrored(p) =>
            /\ ret[p].kind = "error"
            /\ retStatus[p] = StatusFailed
            /\ \A i \in 1..Len(WorkerMessage(p)) :
                   Contains(ret[p].message, WorkerMessage(p)[i])

\* C22: the worker is invoked only for a job that has been Pending since its
\* last Completed or Failed status: after a failed run no further attempt
\* reaches the worker unless a Reset came first.
C22_NoAttemptWithoutReset ==
    [][\A p \in Procs : (workerInvoked'[p] /\ ~workerInvoked[p]) => epochOpen]_vars

\* C23: once a run has failed and the job has been Reset, a run whose worker
\* is invoked after that Reset, on a payload the validator accepts, alone in
\* the pipeline and with its context not cancelled, ends with a result.
C23_FailedJobRecovers ==
    \A p, q \in Procs :
        ( /\ p # q
          /\ pc[q] = "done"
          /\ retStatus[q] = StatusFailed
          /\ epochOpen
          /\ epochRuns >= 1
          /\ workerInvoked[p]
          /\ data[p] \notin RejectedPayloads
          /\ ~ctxDone[p]
          /\ ~contended[p]
          /\ RunOver(p) ) => ret[p].kind = "result"

\* the Go run of unit p is in executeProcessing with its context cancelled
\* before the worker's delay has elapsed
CancelledEarly(p) ==
    /\ lang = "go"
    /\ pc[p] = "execute"
    /\ ctxDone[p]
    /\ waited[p] < WorkDelayMs

\* C28: a Go run whose context is cancelled before the worker's delay has
\* elapsed waits no longer, and its next step returns an error that wraps the
\* context's error, with no result, and sets the status Failed.
C28_CancelledRunFails ==
    [][\A p \in Procs :
          CancelledEarly(p) =>
              /\ waited'[p] <= waited[p]
              /\ pc'[p] # pc[p] =>
                    /\ status' = StatusFailed
                    /\ retStatus'[p] = StatusFailed
                    /\ ret'[p].kind = "error"
                    /\ ret'[p].message = GoProcessingError(GoContextCanceled)]_vars

\* C28 happens: a run whose worker was entered and whose context was cancelled
\* has returned the wrapped context error, and the status is Failed.
C28_Witness ==
    \E p \in Procs :
        /\ lang = "go"
        /\ workerInvoked[p]
        /\ ctxDone[p]
        /\ ret[p].kind = "error"
        /\ Contains(ret[p].message, "context canceled")
        /\ Contains(ret[p].message, "processing failed")
        /\ retStatus[p] = StatusFailed
        /\ status = StatusFailed

\* unit p is the only one that ever made a call, and no Reset was the last
\* write of the status
SequentialUse(p) ==
    /\ \A q \in Procs \ {p} : op[q] = "none"
    /\ resetStreak = 0

\* C30: with no other operation on the manager, once a call of process has
\* ended the status is Completed if it returned a result and Failed if it
\* returned or threw an error; it is never Processing.
C30_StatusTerminalOnExit ==
    \A p \in Procs :
        (SequentialUse(p) /\ ret[p].kind # "none") =>
            /\ status \in Terminal
            /\ ret[p].kind = "result" => status = StatusCompleted
            /\ ret[p].kind = "error" => status = StatusFailed

\* C30 happens: the only caller's run has thrown its validation error and the
\* status is Failed.
C30_Witness ==
    \E p \in Procs :
        /\ SequentialUse(p)
        /\ ret[p].kind = "error"
        /\ ~workerInvoked[p]
        /\ pc[p] = "done"
        /\ status = StatusFailed

\* C24: creating a job succeeds for every configuration passed, a missing one
\* included, and the new job is Pending.
C24_CreationAlwaysSucceeds ==
    /\ made # "threw"
    /\ made = "ok" => status = StatusPending

\* C25: the configuration a job holds stays the one it was created with,
\* whatever the caller writes to the object it passed or through the value
\* GetConfig returned.
C25_ConfigIsSnapshot == made = "ok" => heldCfg = createdWith

\* a GetStatus / getStatus call comes back with a status the caller had not
\* seen at its previous read
StatusReadStep == seen' # seen

\* C26: a status read returns the status field as the latest committed
\* transition left it, never an older one.
C26_StatusReadIsCurrent == [][StatusReadStep => seen' = status]_vars

\* a PDF of at most 10 MB
PdfWithinLimit(f) == f.type = "application/pdf" /\ f.size <= 10 * 1024 * 1024

\* a file is given to handleFileUpload
FileGiven == appPc = "idle" /\ appState.currentStep = "UPLOAD" /\ appState' # appState

\* C27: an upload request is issued only for a PDF of at most 10 MB, the limit
\* included; for any other file handleFileUpload goes to ERROR with a
\* validation message and issues neither an upload nor a poll request.
C27_OnlyValidPdfIsUploaded ==
    [][
        /\ (uploads' # uploads) => (FileGiven /\ PdfWithinLimit(file'))
        /\ (FileGiven /\ PdfWithinLimit(file')) =>
              (uploads' = uploads + 1 /\ appState'.currentStep = "PROCESSING")
        /\ (FileGiven /\ ~PdfWithinLimit(file')) =>
              /\ appState'.currentStep = "ERROR"
              /\ appState'.error \in {FileTypeMessage, FileSizeMessage}
              /\ uploads' = uploads
              /\ pollVars' = pollVars
              /\ appPc' = "idle"
    ]_vars

\* after one upload went through, a PDF one byte above the limit was refused
C27_Witness ==
    /\ lastHandler = "handleFileUpload"
    /\ file = [type |-> "application/pdf", size |-> MAX_SIZE + 1]
    /\ appState.currentStep = "ERROR"
    /\ appState.error = FileSizeMessage
    /\ uploads = 1
    /\ polledId = ReviewIdOf(1)

\* handleRetry is called
RetryCalled == appPc = "idle" /\ appState.currentStep = "ERROR" /\ lastHandler' = "handleRetry"

\* C29: handleRetry with a stored reviewId polls that review again and issues
\* no upload, and ends in RESULTS exactly when the poll returned a completed
\* review with a body, otherwise in ERROR; with no stored reviewId it puts the
\* application back into its initial state.
C29_RetryPollsSameReview ==
    [][
        /\ (RetryCalled /\ appState.reviewId # NoReviewId) =>
              /\ appPc' = "retrying"
              /\ polledId' = appState.reviewId
              /\ pollPc' = "loop"
              /\ gets' = 0
        /\ (appPc = "retrying" \/ appPc' = "retrying") => uploads' = uploads
        /\ (appPc = "retrying" /\ appPc' # "retrying") =>
              /\ appState'.currentStep \in {"RESULTS", "ERROR"}
              /\ appState'.currentStep = "RESULTS" <=>
                    (pollPc = "returned" /\ pollOut = StatusCompleted /\ response.body)
              /\ polledId = appState'.reviewId
        /\ (RetryCalled /\ appState.reviewId = NoReviewId) =>
              (appState' = InitialAppState /\ pollVars' = pollVars /\ appPc' = "idle")
    ]_vars

\* a retry of a stored review ended in RESULTS without a second upload
C29_Witness ==
    /\ lastHandler = "handleRetry"
    /\ appPc = "idle"
    /\ appState.currentStep = "RESULTS"
    /\ appState.reviewId = polledId
    /\ polledId = ReviewIdOf(1)
    /\ uploads = 1
    /\ response.body

\* the channel of a ProcessAsync call of the Go manager was closed
GoChannelClosed(p) == lang = "go" /\ op[p] = "processAsync" /\ handle[p].closed

\* C31: every ProcessAsync call of the Go manager puts exactly one Result on
\* its channel before the channel is closed, whether or not the context is
\* cancelled: the Result of Process, or a Result with Status "error" and the
\* error text as its Message.
C31_OneResultBeforeClose ==
    \A p \in Procs :
        GoChannelClosed(p) => handle[p].buf = <<GoAsyncResult(ret[p])>>

\* a step of unit p's Process or ProcessAsync goroutine
GoAdvance(p) ==
    \/ GoLock(p)
    \/ GoValidateFail(p)
    \/ GoValidateOk(p)
    \/ GoWorkerDone(p)
    \/ GoWorkerCancelled(p)
    \/ GoSendDeliver(p)
    \/ GoSendDrop(p)

\* unit p can take a step, or the timer it waits for is running
GoCanStep(p) == (ENABLED GoAdvance(p)) \/ Waiting(p)

\* unit p is not stuck: it can step, or it waits for mu and the holder can
GoCanProceed(p) ==
    \/ GoCanStep(p)
    \/ pc[p] = "lock" /\ \E q \in Procs \ {p} : mu = q /\ GoCanStep(q)

\* how far a Go call has come
GoPosition(l) ==
    CASE l = "lock" -> 1
      [] l = "validate" -> 2
      [] l = "execute" -> 3
      [] l = "send" -> 4
      [] l = "done" -> 5
      [] OTHER -> 0

\* a call of unit p only moves forward until a new call starts, and the time
\* it has waited only grows while it stays where it is
GoMovesForward(p) ==
    /\ (pc'[p] # pc[p] /\ ~Idle(p)) => GoPosition(pc'[p]) > GoPosition(pc[p])
    /\ (pc'[p] = pc[p] /\ waited'[p] # waited[p]) =>
          (waited'[p] > waited[p] /\ waited[p] < WorkDelayMs)

C34_ResetWaitsForProcess ==
    /\ [](lang = "go" => (mu # 0 => status = StatusProcessing))
    /\ [][lang = "go" =>
            /\ (status' = StatusPending /\ status # StatusPending) => (mu = 0 /\ mu' = 0)
            /\ (status = StatusPending /\ status' # StatusPending) =>
                  (mu = 0 /\ mu' # 0 /\ status' = StatusProcessing)]_vars

\* a Process failed, a Reset followed, and the status is Pending with no run
\* in flight
C34_Witness ==
    \E p \in Procs :
        /\ lang = "go"
        /\ pc[p] = "done"
        /\ retStatus[p] = StatusFailed
        /\ status = StatusPending
        /\ mu = 0
        /\ resetStreak = 1

\* a getReview of pollReview has just thrown
GetThrew == pollPc = "got" /\ lastGet \in GetErrors

\* C35: a getReview that throws on an attempt other than the last is
\* swallowed: pollReview sleeps one interval, counts the attempt and goes on
\* polling; one that throws on the last attempt (attempts = maxAttempts - 1)
\* makes pollReview throw that same error, not the timeout error.
C35_ThrowSwallowedUntilLastAttempt ==
    [][
        /\ (GetThrew /\ attempts < MAX_POLL_ATTEMPTS - 1) =>
              /\ pollPc' = "loop"
              /\ sleeps' = sleeps + 1
              /\ attempts' = attempts + 1
              /\ attempts' < MAX_POLL_ATTEMPTS
              /\ gets' = gets
              /\ pollOut' = "none"
        /\ (GetThrew /\ attempts = MAX_POLL_ATTEMPTS - 1) =>
              /\ pollPc' = "thrown"
              /\ pollOut' = lastGet
              /\ pollOut' # TimeoutError
              /\ sleeps' = sleeps
    ]_vars

\* every getReview but the last was swallowed or not terminal, and the last
\* one threw: pollReview threw its error
C35_Witness ==
    /\ pollPc = "thrown"
    /\ pollOut = "ServerError"
    /\ lastGet = "ServerError"
    /\ gets = MAX_POLL_ATTEMPTS
    /\ attempts = MAX_POLL_ATTEMPTS - 1
    /\ sleeps = MAX_POLL_ATTEMPTS - 1

\* C36: the application does not stay in PROCESSING: from PROCESSING it reaches
\* RESULTS or ERROR, after the upload and at most MAX_POLL_ATTEMPTS getReviews,
\* when every request returns or throws.
C36_ProcessingEnds ==
    /\ [](gets <= MAX_POLL_ATTEMPTS /\ attempts <= MAX_POLL_ATTEMPTS)
    /\ [](appState.currentStep = "PROCESSING" => appPc # "idle")
    /\ (appState.currentStep = "PROCESSING") ~>
          (appState.currentStep \in {"RESULTS", "ERROR"})

\* an upload went through MAX_POLL_ATTEMPTS getReviews and ended in ERROR
C36_Witness ==
    /\ lastHandler = "handleFileUpload"
    /\ appPc = "idle"
    /\ appState.currentStep = "ERROR"
    /\ gets = MAX_POLL_ATTEMPTS
    /\ pollOut = TimeoutError
    /\ appState.error = TimeoutError

\* a text that is an error message: not null and not empty
IsMessage(m) == m \notin {NullData, ""}

\* C37: in RESULTS the stored review is completed and has a body, and in
\* ERROR an error message is stored; a poll that ends with a failed review,
\* or with a completed one that has no body, leads to ERROR and not to RESULTS.
C37_StepsCarryTheirData ==
    /\ [](/\ appState.currentStep = "RESULTS" =>
               (appState.review.status = StatusCompleted /\ appState.review.body)
          /\ appState.currentStep = "ERROR" => IsMessage(appState.error))
    /\ [][(/\ appPc \in {"polling", "retrying"}
           /\ appPc' = "idle"
           /\ pollPc = "returned"
           /\ ~(response.status = StatusCompleted /\ response.body))
              => appState'.currentStep = "ERROR"]_vars

\* C38: isLoading is true exactly when currentStep is PROCESSING.
C38_LoadingIffProcessing ==
    appState.isLoading <=> appState.currentStep = "PROCESSING"

\* a retry is in flight after an error: loading again, step PROCESSING
C38_Witness ==
    /\ appPc = "retrying"
    /\ pollPc = "returned"
    /\ appState.isLoading
    /\ appState.currentStep = "PROCESSING"

====
